---- MODULE Spec2Model ----
(***************************************************************************)
(* Model of src/script.js (smart-health-monitor): the severity scorers,    *)
(* the risk classifier analyzeHealthData, the suggestion engine            *)
(* generateAISuggestion, the distance helpers and the hospital matcher     *)
(* nearest, with the module state they read and write.                     *)
(*                                                                         *)
(* Numbers.  JavaScript numbers are modelled in fixed point so that the    *)
(* arithmetic of the code is exact: a raw temperature reading is an        *)
(* integer number of 1/100 degree, a Fahrenheit value an integer number of *)
(* 1/1000 degree (n*9/5+32 of a reading in 1/100 degree is n*18+32000 in   *)
(* 1/1000 degree).  Distances are integer metres.                          *)
(*                                                                         *)
(* Strings.  A string that the code lower-cases, trims or searches is a    *)
(* sequence of one-character strings; a string that is only compared or    *)
(* shown is a TLA+ string.                                                 *)
(***************************************************************************)
EXTENDS Integers, Sequences, FiniteSets, TLC

VARIABLES
  userProfile,    \* state.userProfile
  hospitals,      \* the module-level list hospitals
  userLat,        \* the module-level userLat
  userLon,        \* the module-level userLon
  storeHospitals, \* the IndexedDB object store "hospitals" (keyPath Name)
  pc,             \* how far the start-up of safeInit has got
  arg,            \* arguments of the core function being called
  op,             \* the function called last, or the handler that ran last
  ret,            \* what it returned
  healthRecords,  \* state.healthRecords, latest first
  activeAlert,    \* state.activeAlert
  aiSuggestion,   \* state.aiSuggestion
  storeRecords,   \* the IndexedDB object store "records" (keyPath id)
  storeProfile,   \* the IndexedDB object store "profile" (keyPath id)
  now,            \* the clock Date.now() reads, in milliseconds
  submitQ,        \* check-in handlers waiting at 'await dbPut': their newRecord
  profileQ,       \* profile handlers waiting at 'await dbPut': their profile
  genLast         \* what is known of the last call of generateAISuggestion

vars == <<userProfile, hospitals, userLat, userLon, storeHospitals, pc, arg, op, ret,
          healthRecords, activeAlert, aiSuggestion, storeRecords, storeProfile,
          now, submitQ, profileQ, genLast>>

(***************************************************************************)
(* Bounds                                                                  *)
(***************************************************************************)
MaxSymptoms == 3
MaxHistory == 1
MaxElements == 4
MaxClock == 2
MaxRecords == 2
MaxPending == 1
MaxOlder == 1

(***************************************************************************)
(* String primitives                                                       *)
(***************************************************************************)
UpperChars == <<"A","B","C","D","E","F","G","H","I","J","K","L","M",
                "N","O","P","Q","R","S","T","U","V","W","X","Y","Z">>
LowerChars == <<"a","b","c","d","e","f","g","h","i","j","k","l","m",
                "n","o","p","q","r","s","t","u","v","w","x","y","z">>

lowerChar(c) ==
  IF \E i \in 1..26 : UpperChars[i] = c
  THEN LowerChars[CHOOSE i \in 1..26 : UpperChars[i] = c]
  ELSE c

\* String.prototype.toLowerCase
toLowerCase(s) == [i \in 1..Len(s) |-> lowerChar(s[i])]

\* String.prototype.trim
trim(s) ==
  LET solid == {i \in 1..Len(s) : s[i] # " "}
  IN IF solid = {} THEN <<>>
     ELSE LET first == CHOOSE i \in solid : \A j \in solid : i <= j
              last  == CHOOSE i \in solid : \A j \in solid : i >= j
          IN SubSeq(s, first, last)

\* String.prototype.includes
includes(s, q) ==
  \E i \in 0..(Len(s) - Len(q)) : SubSeq(s, i + 1, i + Len(q)) = q

\* Array.prototype.includes / some(x => x === v) on a list
listIncludes(list, v) == \E i \in 1..Len(list) : list[i] = v

(***************************************************************************)
(* The literals the scorers compare symptoms with                          *)
(***************************************************************************)
litChestPain == <<"c","h","e","s","t"," ","p","a","i","n">>
litShortnessOfBreath ==
  <<"s","h","o","r","t","n","e","s","s"," ","o","f"," ","b","r","e","a","t","h">>
litBreathlessness == <<"b","r","e","a","t","h","l","e","s","s","n","e","s","s">>
litHeadache == <<"h","e","a","d","a","c","h","e">>
litFatigue == <<"f","a","t","i","g","u","e">>
litFever == <<"f","e","v","e","r">>

(***************************************************************************)
(* Temperature fields.  k = "null": the field is null or ""; k = "nan":    *)
(* present but not a finite number; k = "num": the number v/100.           *)
(***************************************************************************)
NoTemp == [k |-> "null", v |-> 0]
NaNTemp == [k |-> "nan", v |-> 0]
Num(v) == [k |-> "num", v |-> v]

\* a conversion that takes every reading for Fahrenheit
toFahrenheitAsIs(n) == n * 10

\* (n <= 45) ? (n * 9 / 5 + 32) : n, from 1/100 degree to 1/1000 degree
toFahrenheit(n) == IF n <= 4500 THEN n * 18 + 32000 ELSE n * 10

\* Math.round(tempF * 10) / 10 on a value in 1/1000 degree
roundOneDecimal(f) == ((f + 50) \div 100) * 100

\* feverSeverityFromRecord with the 100.4 band closed at its upper end
feverSeverityInclusiveBand(record) ==
  LET raw == record.temperature IN
  IF raw.k = "null"
  THEN IF \E i \in 1..Len(record.symptoms) :
             toLowerCase(record.symptoms[i]) = litFever
       THEN 5 ELSE 0
  ELSE IF raw.k = "nan" THEN 0
  ELSE LET tempF == toFahrenheit(raw.v) IN
       IF tempF < 98000 THEN 0
       ELSE IF tempF < 99500 THEN 2
       ELSE IF tempF <= 100400 THEN 4
       ELSE IF tempF < 102000 THEN 7
       ELSE 9

feverSeverityFromRecord(record) ==
  LET raw == record.temperature IN
  IF raw.k = "null"
  THEN IF \E i \in 1..Len(record.symptoms) :
             toLowerCase(record.symptoms[i]) = litFever
       THEN 5 ELSE 0
  ELSE IF raw.k = "nan" THEN 0
  ELSE LET tempF == toFahrenheit(raw.v) IN
       IF tempF < 98000 THEN 0
       ELSE IF tempF < 99500 THEN 2
       ELSE IF tempF < 100400 THEN 4
       ELSE IF tempF < 102000 THEN 7
       ELSE 9

\* painSeverityFromRecord without the cap at 9
painSeverityUncapped(record) ==
  LET sLower == [i \in 1..Len(record.symptoms) |-> toLowerCase(record.symptoms[i])]
  IN (IF listIncludes(sLower, litChestPain) THEN 6 ELSE 0)
   + (IF listIncludes(sLower, litHeadache) THEN 3 ELSE 0)
   + (IF listIncludes(sLower, litFatigue) THEN 1 ELSE 0)

painSeverityFromRecord(record) ==
  LET sLower == [i \in 1..Len(record.symptoms) |-> toLowerCase(record.symptoms[i])]
      score  == (IF listIncludes(sLower, litChestPain) THEN 6 ELSE 0)
              + (IF listIncludes(sLower, litHeadache) THEN 3 ELSE 0)
              + (IF listIncludes(sLower, litFatigue) THEN 1 ELSE 0)
  IN IF score > 9 THEN 9 ELSE score

(***************************************************************************)
(* Risk classifier                                                         *)
(***************************************************************************)
\* isNum(v) of analyzeHealthData: v != null && v !== "" && isFinite(Number(v))
isNum(v) == v.k = "num"

\* the condition of line 705 with the bounds of the normal range excluded
abnormalTemperatureInclusive(tempF) == tempF >= 100400 \/ tempF <= 95000

\* the condition of line 705 on a present temperature
abnormalTemperature(tempF) == tempF > 100400 \/ tempF < 95000

\* the cascade with each sensor-fault arm tested before the arm that shadows it
temperatureBranchFaultFirst(tempF) ==
  IF tempF > 120000 THEN "highFault"
  ELSE IF tempF > 103000 THEN "high"
  ELSE IF tempF < 50000 THEN "lowFault"
  ELSE IF tempF < 92000 THEN "low"
  ELSE "mild"

\* which arm of the if / else-if cascade of lines 707-723 runs
temperatureBranch(tempF) ==
  IF tempF > 103000 THEN "high"
  ELSE IF tempF > 120000 THEN "highFault"
  ELSE IF tempF < 92000 THEN "low"
  ELSE IF tempF < 50000 THEN "lowFault"
  ELSE "mild"

\* the assignment to level in each arm
branchLevel(branch, level) ==
  IF branch = "high" \/ branch = "low"
  THEN (IF level = "emergency" THEN "emergency" ELSE "urgent")
  ELSE IF branch = "highFault" \/ branch = "lowFault"
  THEN (IF level = "invalid" THEN "invalid" ELSE "emergency")
  ELSE (IF level = "normal" THEN "warning" ELSE level)

\* the string each arm pushes on recommendations
branchRecommendation(branch) ==
  IF branch = "high" THEN "High fever or hypothermia - seek medical care"
  ELSE IF branch = "highFault" THEN "very high temperature - fault in thermometer"
  ELSE IF branch = "low" THEN "low body temperature - seek medical care"
  ELSE IF branch = "lowFault" THEN "very low temperature - fault in thermometer"
  ELSE "Monitor temperature and stay hydrated"

\* the message is a template: its fixed text and the issues joined into it
analyzeHealthData(current, history) ==
  LET rawTemp == current.temperature
      hasTemp == isNum(rawTemp)
      tempF   == IF hasTemp THEN toFahrenheit(rawTemp.v) ELSE 0
      flagged == hasTemp /\ abnormalTemperature(tempF)
      issues  == IF flagged THEN <<"abnormal temperature">> ELSE <<>>
      level   == IF flagged THEN branchLevel(temperatureBranch(tempF), "normal")
                 ELSE "normal"
      recs    == IF flagged THEN <<branchRecommendation(temperatureBranch(tempF))>>
                 ELSE <<>>
  IN IF level = "normal"
     THEN [level |-> level,
           message |-> [text |-> "All vitals are within normal range. Keep up the good work!",
                        issues |-> <<>>],
           recommendations |-> recs \o <<"Continue monitoring daily",
                                          "Maintain healthy diet and exercise">>]
     ELSE IF level = "warning"
     THEN [level |-> level,
           message |-> [text |-> "Some vitals need attention: ", issues |-> issues],
           recommendations |-> recs]
     ELSE IF level = "urgent"
     THEN [level |-> level,
           message |-> [text |-> "Urgent attention needed: ", issues |-> issues],
           recommendations |-> recs]
     ELSE [level |-> level,
           message |-> [text |-> "EMERGENCY: Critical health indicators detected - ",
                        issues |-> issues],
           recommendations |-> recs]

(***************************************************************************)
(* Suggestion engine.  A suggestion or reason is [msg, temp, list]: the    *)
(* fixed text, the temperature interpolated into it (1/1000 degree F, 0    *)
(* when none) and the tag list joined into it (<<>> when none).            *)
(***************************************************************************)
Text(msg) == [msg |-> msg, temp |-> 0, list |-> <<>>]
TextTemp(msg, t) == [msg |-> msg, temp |-> t, list |-> <<>>]
TextList(msg, l) == [msg |-> msg, temp |-> 0, list |-> l]

\* toNumber(v) of generateAISuggestion: null for null, "" and non-finite
toNumber(v) == IF v.k = "num" THEN v ELSE NoTemp

\* suggestions.filter(s => first occurrence of s)
dedupe(list) ==
  LET keep == {i \in 1..Len(list) : \A j \in 1..(i - 1) : list[j] # list[i]}
      F[i \in 0..Len(list)] ==
        IF i = 0 THEN <<>>
        ELSE IF i \in keep THEN Append(F[i - 1], list[i]) ELSE F[i - 1]
  IN F[Len(list)]

emergencySuggestions ==
  <<Text("Call emergency services or go to the nearest emergency department immediately."),
    Text("If available, take someone with you and inform them of the symptoms.")>>

\* the temperature step banding the value before it is rounded
temperatureStepUnrounded(tempRaw, symptoms) ==
  IF tempRaw.k = "num"
  THEN LET tempF == toFahrenheit(tempRaw.v) IN
       IF tempF >= 104000
       THEN <<[s |-> Text("High fever (>=104F) - seek urgent medical care."),
               r |-> TextTemp("High temperature", tempF)]>>
       ELSE IF tempF >= 100400
       THEN <<[s |-> Text("Fever detected - rest, hydrate, take antipyretic like paracetamol per dosing instructions, recheck in 2-4 hours."),
               r |-> TextTemp("Fever", tempF)]>>
       ELSE IF tempF >= 99500
       THEN <<[s |-> Text("Low-grade fever - monitor, rest, hydrate. Contact clinician if it rises or other concerning symptoms appear."),
               r |-> TextTemp("Low-grade fever", tempF)]>>
       ELSE IF tempF < 95000
       THEN <<[s |-> Text("Measured temperature unusually low - verify thermometer and re-measure; seek care if symptomatic."),
               r |-> TextTemp("Low measured temp", tempF)]>>
       ELSE <<>>
  ELSE IF listIncludes(symptoms, litFever)
  THEN <<[s |-> Text("Reported fever symptom - measure temperature, hydrate, consider antipyretic if needed."),
          r |-> Text("Reported symptom: fever")]>>
  ELSE <<>>

\* the steps of generateAISuggestion after the emergency check; each yields
\* the [s, r] pairs it pushes on suggestions and reasons
temperatureStep(tempRaw, symptoms) ==
  IF tempRaw.k = "num"
  THEN LET tempF == roundOneDecimal(toFahrenheit(tempRaw.v)) IN
       IF tempF >= 104000
       THEN <<[s |-> Text("High fever (>=104F) - seek urgent medical care."),
               r |-> TextTemp("High temperature", tempF)]>>
       ELSE IF tempF >= 100400
       THEN <<[s |-> Text("Fever detected - rest, hydrate, take antipyretic like paracetamol per dosing instructions, recheck in 2-4 hours."),
               r |-> TextTemp("Fever", tempF)]>>
       ELSE IF tempF >= 99500
       THEN <<[s |-> Text("Low-grade fever - monitor, rest, hydrate. Contact clinician if it rises or other concerning symptoms appear."),
               r |-> TextTemp("Low-grade fever", tempF)]>>
       ELSE IF tempF < 95000
       THEN <<[s |-> Text("Measured temperature unusually low - verify thermometer and re-measure; seek care if symptomatic."),
               r |-> TextTemp("Low measured temp", tempF)]>>
       ELSE <<>>
  ELSE IF listIncludes(symptoms, litFever)
  THEN <<[s |-> Text("Reported fever symptom - measure temperature, hydrate, consider antipyretic if needed."),
          r |-> Text("Reported symptom: fever")]>>
  ELSE <<>>

\* the pain step with the severe suggestion from a score of 4
painStepSevereFrom4(current) ==
  LET painScore == painSeverityFromRecord(current) IN
  IF painScore >= 4
  THEN <<[s |-> Text("Severe pain - consider urgent clinical assessment."),
          r |-> TextTemp("Severe pain score", painScore)]>>
  ELSE <<>>

painStep(current) ==
  LET painScore == painSeverityFromRecord(current) IN
  IF painScore >= 8
  THEN <<[s |-> Text("Severe pain - consider urgent clinical assessment."),
          r |-> TextTemp("Severe pain score", painScore)]>>
  ELSE IF painScore >= 4
  THEN <<[s |-> Text("Moderate pain - rest, consider an analgesic per usual guidance, and contact clinician if pain persists or worsens."),
          r |-> TextTemp("Moderate pain", painScore)]>>
  ELSE <<>>

\* the trend step comparing with the oldest entry of the history
trendStepOldest(current, history) ==
  IF Len(history) > 0
  THEN LET prev  == history[Len(history)]
           prevF == feverSeverityFromRecord(prev)
           currF == feverSeverityFromRecord(current)
           prevP == painSeverityFromRecord(prev)
           currP == painSeverityFromRecord(current)
       IN (IF currF > prevF /\ currF >= 4
           THEN <<[s |-> Text("Fever trending up compared to previous check - contact clinician if it continues to rise."),
                   r |-> Text("Upward fever trend")]>>
           ELSE <<>>)
          \o
          (IF currP > prevP /\ currP >= 4
           THEN <<[s |-> Text("Pain worsening vs previous check - consider contacting your doctor."),
                   r |-> Text("Worsening pain trend")]>>
           ELSE <<>>)
  ELSE <<>>

trendStep(current, history) ==
  IF Len(history) > 0
  THEN LET prev  == history[1]
           prevF == feverSeverityFromRecord(prev)
           currF == feverSeverityFromRecord(current)
           prevP == painSeverityFromRecord(prev)
           currP == painSeverityFromRecord(current)
       IN (IF currF > prevF /\ currF >= 4
           THEN <<[s |-> Text("Fever trending up compared to previous check - contact clinician if it continues to rise."),
                   r |-> Text("Upward fever trend")]>>
           ELSE <<>>)
          \o
          (IF currP > prevP /\ currP >= 4
           THEN <<[s |-> Text("Pain worsening vs previous check - consider contacting your doctor."),
                   r |-> Text("Worsening pain trend")]>>
           ELSE <<>>)
  ELSE <<>>

\* the profile step reading the persisted profile instead of state.userProfile
profileStepStored(profile) ==
  IF storeProfile.exists
  THEN (IF Len(storeProfile.medications) > 0
        THEN <<[s |-> TextList("Continue prescribed medications: unless instructed otherwise.",
                               storeProfile.medications),
                r |-> Text("On regular medications")]>>
        ELSE <<>>)
       \o
       (IF Len(storeProfile.allergies) > 0
        THEN <<[s |-> TextList("Allergies recorded: - inform any treating clinician.",
                               storeProfile.allergies),
                r |-> Text("Known allergies")]>>
        ELSE <<>>)
  ELSE <<>>

profileStep(profile) ==
  IF profile.exists
  THEN (IF Len(profile.medications) > 0
        THEN <<[s |-> TextList("Continue prescribed medications: unless instructed otherwise.",
                               profile.medications),
                r |-> Text("On regular medications")]>>
        ELSE <<>>)
       \o
       (IF Len(profile.allergies) > 0
        THEN <<[s |-> TextList("Allergies recorded: - inform any treating clinician.",
                               profile.allergies),
                r |-> Text("Known allergies")]>>
        ELSE <<>>)
  ELSE <<>>

\* (current.symptoms || []).map(s => String(s || "").toLowerCase().trim())
symptomsLowerTrimmed(current) ==
  [i \in 1..Len(current.symptoms) |-> trim(toLowerCase(current.symptoms[i]))]

\* the emergency check without its third alternative
emergencySymptomNoBreathlessness(symptoms) ==
  \/ listIncludes(symptoms, litChestPain)
  \/ listIncludes(symptoms, litShortnessOfBreath)

\* the condition of the emergency priority check
emergencySymptom(symptoms) ==
  \/ listIncludes(symptoms, litChestPain)
  \/ listIncludes(symptoms, litShortnessOfBreath)
  \/ listIncludes(symptoms, litBreathlessness)

\* a summary taken from the other end of the list
summaryLast(deduped) ==
  IF Len(deduped) > 0 THEN deduped[Len(deduped)]
  ELSE Text("No specific suggestion.")

\* const summary = deduped[0] || "No specific suggestion."
summaryOf(deduped) ==
  IF Len(deduped) > 0 THEN deduped[1] ELSE Text("No specific suggestion.")

\* a fallback that is appended whatever was pushed before
baselineFallbackAlways(pushed) ==
  Append(pushed,
         [s |-> Text("No urgent issues detected. Monitor daily, rest, hydrate, and seek care if symptoms worsen."),
          r |-> Text("Routine monitoring")])

\* if (suggestions.length === 0) push the baseline suggestion and reason
baselineFallback(pushed) ==
  IF Len(pushed) = 0
  THEN <<[s |-> Text("No urgent issues detected. Monitor daily, rest, hydrate, and seek care if symptoms worsen."),
          r |-> Text("Routine monitoring")]>>
  ELSE pushed

\* generateAISuggestion(current, history); profile is state.userProfile,
\* which the function reads from the module state.  generatedAt, the wall
\* clock at the call, is not part of the modelled result.
generateAISuggestion(current, history, profile) ==
  LET tempRaw  == toNumber(current.temperature)
      symptoms == symptomsLowerTrimmed(current)
  IN IF emergencySymptom(symptoms)
     THEN [recordId |-> current.id,
           summary |-> Text("URGENT: Chest pain / breathlessness - seek emergency care now."),
           reasons |-> <<Text("Chest pain / breathlessness reported")>>,
           suggestions |-> emergencySuggestions]
     ELSE LET pushed == temperatureStep(tempRaw, symptoms) \o painStep(current)
                        \o trendStep(current, history) \o profileStep(profile)
              all == baselineFallback(pushed)
              suggestions == [i \in 1..Len(all) |-> all[i].s]
              reasons == [i \in 1..Len(all) |-> all[i].r]
              deduped == dedupe(suggestions)
          IN [recordId |-> current.id,
              summary |-> summaryOf(deduped),
              reasons |-> reasons,
              suggestions |-> deduped]

(***************************************************************************)
(* Distances.  A coordinate is [k, v]: k = "null" for null or undefined,   *)
(* "nan" for NaN, "num" for the number v * 0.005 degree.  A distance is    *)
(* [k, v]: k = "null" for null, "inf" for Infinity, "num" for v metres.    *)
(***************************************************************************)
NoCoord == [k |-> "null", v |-> 0]
NaNCoord == [k |-> "nan", v |-> 0]
Deg(v) == [k |-> "num", v |-> v]

NoDistance == [k |-> "null", v |-> 0]
Infinity == [k |-> "inf", v |-> 0]
Metres(v) == [k |-> "num", v |-> v]

\* lines 116-124: R * 2 * atan2(sqrt(a), sqrt(1 - a)) with R = 6371, in
\* metres, for coordinates 0 .. 3 steps of 0.005 degree from the equator and
\* the prime meridian, where the value depends on dLat^2 + dLon^2 only
haversine(lat1, lon1, lat2, lon2) ==
  LET dLat == lat2 - lat1
      dLon == lon2 - lon1
      sq   == dLat * dLat + dLon * dLon
  IN CASE sq = 0 -> 0
       [] sq = 1 -> 556
       [] sq = 2 -> 786
       [] sq = 4 -> 1112
       [] sq = 5 -> 1243
       [] sq = 8 -> 1573
       [] sq = 9 -> 1668
       [] sq = 10 -> 1758
       [] sq = 13 -> 2005
       [] sq = 18 -> 2359

\* getDistance answering 0 where a coordinate is missing
getDistanceZeroSentinel(lat1, lon1, lat2, lon2) ==
  IF \E c \in {lat1, lon1, lat2, lon2} : c.k # "num"
  THEN Metres(0)
  ELSE Metres(haversine(lat1.v, lon1.v, lat2.v, lon2.v))

getDistance(lat1, lon1, lat2, lon2) ==
  IF \E c \in {lat1, lon1, lat2, lon2} : c.k # "num"
  THEN Infinity
  ELSE Metres(haversine(lat1.v, lon1.v, lat2.v, lon2.v))

\* formatDistance; the result is [unit, n]: "Unknown", n "meters", or
\* n/100 "km" (toFixed(2)).  isFinite(null) is true and null counts as 0.
formatDistance(km) ==
  IF km.k = "inf" THEN [unit |-> "Unknown", n |-> 0]
  ELSE LET m == IF km.k = "null" THEN 0 ELSE km.v IN
       IF m < 1000 THEN [unit |-> "meters", n |-> m]
       ELSE [unit |-> "km", n |-> (m + 5) \div 10]

(***************************************************************************)
(* Hospitals                                                               *)
(***************************************************************************)
\* the table types of detectDiseaseType, in its key order
diseaseTypes ==
  <<
     [type |-> <<"h","e","a","r","t">>,
      keys |-> <<<<"h","e","a","r","t">>,
                 <<"c","a","r","d","i","o">>,
                 <<"c","a","r","d","i","a","c">>>>],
     [type |-> <<"b","o","n","e">>,
      keys |-> <<<<"b","o","n","e">>,
                 <<"o","r","t","h","o">>,
                 <<"o","r","t","h","o","p","a","e","d","i","c">>,
                 <<"o","r","t","h","o","p","e","d","i","c">>>>],
     [type |-> <<"c","a","n","c","e","r">>,
      keys |-> <<<<"c","a","n","c","e","r">>,
                 <<"o","n","c","o","l","o","g","y">>,
                 <<"t","u","m","o","r">>,
                 <<"t","u","m","o","u","r">>>>],
     [type |-> <<"n","e","u","r","o">>,
      keys |-> <<<<"n","e","u","r","o">>,
                 <<"b","r","a","i","n">>,
                 <<"n","e","r","v","o","u","s">>>>],
     [type |-> <<"d","e","n","t","a","l">>,
      keys |-> <<<<"d","e","n","t","a","l">>,
                 <<"d","e","n","t","i","s","t">>,
                 <<"t","e","e","t","h">>>>],
     [type |-> <<"e","y","e">>,
      keys |-> <<<<"e","y","e">>,
                 <<"v","i","s","i","o","n">>,
                 <<"o","p","h","t","h","a","l","m">>>>],
     [type |-> <<"s","k","i","n">>,
      keys |-> <<<<"s","k","i","n">>,
                 <<"d","e","r","m","a">>,
                 <<"d","e","r","m","a","t","o","l","o","g","y">>>>],
     [type |-> <<"c","h","i","l","d">>,
      keys |-> <<<<"c","h","i","l","d">>,
                 <<"p","e","d","i","a","t","r","i","c">>,
                 <<"p","a","e","d","i","a","t","r","i","c">>>>],
     [type |-> <<"w","o","m","e","n">>,
      keys |-> <<<<"w","o","m","e","n">>,
                 <<"g","y","n","e">>,
                 <<"o","b","g">>,
                 <<"o","b","g","y","n">>>>],
     [type |-> <<"g","e","n","e","r","a","l">>,
      keys |-> <<>>]
  >>

litGeneral == <<"g","e","n","e","r","a","l">>
litGeneralSpecialty == <<"G","e","n","e","r","a","l">>
litUnnamedHospital == <<"U","n","n","a","m","e","d"," ","H","o","s","p","i","t","a","l">>

\* detectDiseaseType returning the last type of the table that has a key in
\* the text
detectDiseaseTypeLastMatch(tags) ==
  LET full == toLowerCase(tags.name) \o <<" ">> \o toLowerCase(tags.description)
      hit(t) == \E k \in 1..Len(diseaseTypes[t].keys) : includes(full, diseaseTypes[t].keys[k])
      hits == {t \in 1..Len(diseaseTypes) : hit(t)}
  IN IF hits = {} THEN litGeneral
     ELSE diseaseTypes[CHOOSE t \in hits : \A u \in hits : t >= u].type

\* detectDiseaseType(tags): the first type, in table order, one of whose keys
\* occurs in the lower-cased "name description"
detectDiseaseType(tags) ==
  LET full == toLowerCase(tags.name) \o <<" ">> \o toLowerCase(tags.description)
      hit(t) == \E k \in 1..Len(diseaseTypes[t].keys) : includes(full, diseaseTypes[t].keys[k])
      hits == {t \in 1..Len(diseaseTypes) : hit(t)}
  IN IF hits = {} THEN litGeneral
     ELSE diseaseTypes[CHOOSE t \in hits : \A u \in hits : t <= u].type

\* String.prototype.split(",") followed by map(s => s.trim())
RECURSIVE splitTrim(_)
splitTrim(str) ==
  LET commas == {i \in 1..Len(str) : str[i] = ","} IN
  IF commas = {} THEN <<trim(str)>>
  ELSE LET c == CHOOSE i \in commas : \A j \in commas : i <= j
       IN <<trim(SubSeq(str, 1, c - 1))>> \o splitTrim(SubSeq(str, c + 1, Len(str)))

\* the object fetchHospitals builds from one element of the Overpass
\* response (lines 206-223); an absent tag is the empty string
hospitalOf(h) ==
  LET tags == h.tags
      specialties ==
        (IF tags.specialty # <<>> THEN <<tags.specialty>> ELSE <<>>)
        \o (IF tags.specialties # <<>> THEN splitTrim(tags.specialties) ELSE <<>>)
  IN [Name |-> IF tags.name # <<>> THEN tags.name ELSE litUnnamedHospital,
      lat |-> h.lat,
      lng |-> h.lon,
      Category |-> <<detectDiseaseType(tags)>>,
      specialties |-> IF Len(specialties) > 0 THEN specialties
                      ELSE <<litGeneralSpecialty>>,
      emergencyAvailable |-> tags.emergency,
      distanceKm |-> NoDistance,
      Distance |-> [unit |-> "null", n |-> 0]]

\* h.distanceKm = getDistance(userLat, userLon, h.lat, h.lng);
\* h.Distance = formatDistance(h.distanceKm)
withDistance(h, lat, lon) ==
  LET d == getDistance(lat, lon, h.lat, h.lng)
  IN [h EXCEPT !.distanceKm = d, !.Distance = formatDistance(d)]

\* a.distanceKm || Infinity: null and 0 are falsy
orInfinity(d) == IF d.k = "num" /\ d.v # 0 THEN d ELSE Infinity

\* h.distanceKm || null
orNull(d) == IF d.k = "num" /\ d.v # 0 THEN d ELSE IF d.k = "inf" THEN d ELSE NoDistance

\* the comparator (a, b) => (a.distanceKm || Infinity) - (b.distanceKm || Infinity),
\* as the sign sort() uses; Infinity - Infinity is NaN, which sort() takes as 0
compareDistance(a, b) ==
  LET x == orInfinity(a.distanceKm)
      y == orInfinity(b.distanceKm)
  IN IF x.k = "inf" /\ y.k = "inf" THEN 0
     ELSE IF x.k = "inf" THEN 1
     ELSE IF y.k = "inf" THEN -1
     ELSE IF x.v < y.v THEN -1
     ELSE IF x.v > y.v THEN 1
     ELSE 0

\* Array.prototype.sort with that comparator (a stable sort)
sortByDistance(list) ==
  LET insert(sorted, x) ==
        LET k == Cardinality({j \in 1..Len(sorted) : compareDistance(sorted[j], x) <= 0})
        IN SubSeq(sorted, 1, k) \o <<x>> \o SubSeq(sorted, k + 1, Len(sorted))
      F[i \in 0..Len(list)] == IF i = 0 THEN <<>> ELSE insert(F[i - 1], list[i])
  IN F[Len(list)]

\* the filter predicate of nearest with the specialty compared for equality
matchesQueryExactSpecialty(h, q) ==
  LET inCategory == \E i \in 1..Len(h.Category) : toLowerCase(h.Category[i]) = q
      inSpecialty == \E i \in 1..Len(h.specialties) : toLowerCase(h.specialties[i]) = q
      inName == includes(toLowerCase(h.Name), q)
  IN inCategory \/ inSpecialty \/ inName

\* the filter predicate of nearest (lines 284-289)
matchesQuery(h, q) ==
  LET inCategory == \E i \in 1..Len(h.Category) : toLowerCase(h.Category[i]) = q
      inSpecialty == \E i \in 1..Len(h.specialties) : includes(toLowerCase(h.specialties[i]), q)
      inName == includes(toLowerCase(h.Name), q)
  IN inCategory \/ inSpecialty \/ inName

\* lines 291-296 on one hospital of the filtered list
refreshDistance(h, lat, lon) ==
  IF h.distanceKm.k = "null" \/ h.distanceKm.k = "inf"
  THEN withDistance(h, lat, lon)
  ELSE h

\* the elements of list at the positions in S, in list order
selectAt(list, S) ==
  LET F[i \in 0..Len(list)] ==
        IF i = 0 THEN <<>>
        ELSE IF i \in S THEN Append(F[i - 1], list[i]) ELSE F[i - 1]
  IN F[Len(list)]

\* nearest(type) on the list hs with the user at (lat, lon): the value it
\* returns (isNull for null) and the list hospitals it leaves behind, whose
\* filtered elements it updates in place
nearest(type, hs, lat, lon) ==
  LET q == trim(toLowerCase(type))
      hit == {i \in 1..Len(hs) : matchesQuery(hs[i], q)}
      after == [i \in 1..Len(hs) |->
                  IF i \in hit THEN refreshDistance(hs[i], lat, lon) ELSE hs[i]]
      sorted == sortByDistance(selectAt(after, hit))
  IN IF type = <<>> \/ hit = {}
     THEN [isNull |-> TRUE, list |-> <<>>, hospitals |-> hs]
     ELSE [isNull |-> FALSE,
           list |-> SubSeq(sorted, 1, IF Len(sorted) < 3 THEN Len(sorted) ELSE 3),
           hospitals |-> after]


(***************************************************************************)
(* Inputs of the core functions                                            *)
(***************************************************************************)
\* symptom labels as they are stored: the check-in form's values
\* (commonSymptoms) and free-text variants in other case and padding
Vocabulary ==
  << <<"C","h","e","s","t"," ","p","a","i","n">>,
     <<" ","C","H","E","S","T"," ","P","A","I","N"," ">>,
     <<"S","h","o","r","t","n","e","s","s"," ","o","f"," ","b","r","e","a","t","h">>,
     <<"B","r","e","a","t","h","l","e","s","s","n","e","s","s">>,
     <<"H","e","a","d","a","c","h","e">>,
     <<"F","A","T","I","G","U","E">>,
     <<"F","e","v","e","r">>,
     <<"C","o","u","g","h">> >>

\* the labels of a set of vocabulary positions, in vocabulary order
labels(S) ==
  LET F[k \in 0..Len(Vocabulary)] ==
        IF k = 0 THEN <<>>
        ELSE IF k \in S THEN Append(F[k - 1], Vocabulary[k]) ELSE F[k - 1]
  IN F[Len(Vocabulary)]

SymptomLists ==
  {labels(S) : S \in {T \in SUBSET (1..Len(Vocabulary)) : Cardinality(T) <= MaxSymptoms}}

\* readings in 1/100 degree: Celsius readings (<= 45) and Fahrenheit readings
\* on, next to and between the thresholds the code bands on
Readings ==
  {-500, 3300, 3500, 3664, 3700, 3750, 3800, 3900, 4000, 4500,
   4501, 9100, 9300, 9496, 9946, 10036, 10044, 10200, 10300, 10350,
   10396, 12000, 12500}

Temperatures == {NoTemp, NaNTemp} \cup {Num(v) : v \in Readings}

Record(id, temperature, symptoms) ==
  [id |-> id, temperature |-> temperature, symptoms |-> symptoms]

Currents == {Record("r2", t, l) : t \in Temperatures, l \in SymptomLists}

\* the earlier records a history is made of: one without a reading and
\* symptoms and one with a reading and a symptom (TrendPriors has the others)
PriorRecords ==
  {Record("r1", NoTemp, <<>>),
   Record("r1", Num(3750), <<Vocabulary[7]>>)}

RECURSIVE SeqsUpTo(_, _)
SeqsUpTo(S, n) ==
  IF n = 0 THEN {<<>>}
  ELSE LET shorter == SeqsUpTo(S, n - 1)
       IN shorter \cup {Append(q, x) : q \in {r \in shorter : Len(r) = n - 1}, x \in S}

Histories == SeqsUpTo(PriorRecords, MaxHistory)

NoProfile == [exists |-> FALSE, medications |-> <<>>, allergies |-> <<>>]
Profile(medications, allergies) ==
  [exists |-> TRUE, medications |-> medications, allergies |-> allergies]

Profiles ==
  {NoProfile, Profile(<<>>, <<>>), Profile(<<"Aspirin">>, <<>>),
   Profile(<<"Aspirin", "Insulin">>, <<"Penicillin">>)}

NoArg == [current |-> Record("", NoTemp, <<>>), history |-> <<>>]

\* nothing returned and nothing reported
NoRet == [failed |-> FALSE, output |-> ""]

(***************************************************************************)
(* SpecFn: the core functions applied to every input of the bounded sets   *)
(***************************************************************************)
hospVars == <<hospitals, userLat, userLon, storeHospitals, pc>>

\* the records, the alert and the suggestion, their stores, the clock and
\* the handlers in flight
appVars == <<healthRecords, activeAlert, aiSuggestion, storeRecords, storeProfile,
             now, submitQ, profileQ, genLast>>

\* state.activeAlert = null
NoAlert ==
  [level |-> "null", message |-> [text |-> "", issues |-> <<>>],
   recommendations |-> <<>>]

\* state.aiSuggestion = null
NoSuggestion ==
  [recordId |-> 0, summary |-> Text(""), reasons |-> <<>>, suggestions |-> <<>>,
   generatedAt |-> 0]

\* no call of generateAISuggestion yet.  fresh: the record list and the
\* profile are those of the last call; repeats, in the state a call leaves:
\* the call had the inputs of the call before it, which returned before
NoCall == [fresh |-> FALSE, repeats |-> FALSE, before |-> NoSuggestion]

\* the state object as declared, empty stores, no handler in flight
InitApp ==
  /\ healthRecords = <<>>
  /\ activeAlert = NoAlert
  /\ aiSuggestion = NoSuggestion
  /\ storeRecords = {}
  /\ storeProfile = NoProfile
  /\ now = 1
  /\ submitQ = <<>>
  /\ profileQ = <<>>
  /\ genLast = NoCall

InitFn ==
  /\ userProfile \in Profiles
  /\ arg \in [current : Currents, history : Histories]
  /\ op = "none"
  /\ ret = NoRet
  /\ hospitals = <<>>
  /\ userLat = NoCoord
  /\ userLon = NoCoord
  /\ storeHospitals = {}
  /\ pc = "boot"
  /\ InitApp

CallFeverSeverity ==
  /\ op' = "feverSeverityFromRecord"
  /\ ret' = feverSeverityFromRecord(arg.current)
  /\ UNCHANGED <<appVars, userProfile, arg, hospVars>>

CallPainSeverity ==
  /\ op' = "painSeverityFromRecord"
  /\ ret' = painSeverityFromRecord(arg.current)
  /\ UNCHANGED <<appVars, userProfile, arg, hospVars>>

CallAnalyzeHealthData ==
  /\ op' = "analyzeHealthData"
  /\ ret' = analyzeHealthData(arg.current, arg.history)
  /\ UNCHANGED <<appVars, userProfile, arg, hospVars>>

CallGenerateAISuggestion ==
  /\ op' = "generateAISuggestion"
  /\ ret' = generateAISuggestion(arg.current, arg.history, userProfile)
  /\ UNCHANGED <<appVars, userProfile, arg, hospVars>>

NextFn ==
  \/ CallFeverSeverity
  \/ CallPainSeverity
  \/ CallAnalyzeHealthData
  \/ CallGenerateAISuggestion

SpecFn == InitFn /\ [][NextFn]_vars

(***************************************************************************)
(* Properties of the scorers, the classifier and the suggestion engine     *)
(***************************************************************************)
\* the record names the symptom lit, compared case-insensitively
Names(record, lit) ==
  \E i \in 1..Len(record.symptoms) : toLowerCase(record.symptoms[i]) = lit

\* the same, after trimming
NamesTrimmed(record, lit) ==
  \E i \in 1..Len(record.symptoms) : trim(toLowerCase(record.symptoms[i])) = lit

NamesEmergency(record) ==
  \/ NamesTrimmed(record, litChestPain)
  \/ NamesTrimmed(record, litShortnessOfBreath)
  \/ NamesTrimmed(record, litBreathlessness)

FixedUrgentSuggestions ==
  <<Text("Call emergency services or go to the nearest emergency department immediately."),
    Text("If available, take someone with you and inform them of the symptoms.")>>

\* t*9/5+32 for a reading t <= 45 and t itself above, in 1/1000 degree
Fahrenheit(v) == IF v > 4500 THEN 10 * v ELSE 32000 + 18 * v

\* the same rounded to one decimal place (halves upwards)
FahrenheitRounded(v) ==
  LET f == Fahrenheit(v)
      r == f % 100
  IN IF r >= 50 THEN f - r + 100 ELSE f - r

FeverBucket(f) ==
  CASE f < 98000 -> 0
    [] f >= 98000 /\ f < 99500 -> 2
    [] f >= 99500 /\ f < 100400 -> 4
    [] f >= 100400 /\ f < 102000 -> 7
    [] OTHER -> 9

\* C1: every record that names chest pain, shortness of breath or
\* breathlessness (case-insensitively, trimmed) gets the same fixed two-item
\* suggestions list from generateAISuggestion, whatever its temperature, its
\* other symptoms, the history and the profile are.
C1_EmergencyShortCircuit ==
  (op = "generateAISuggestion" /\ NamesEmergency(arg.current))
    => ret.suggestions = FixedUrgentSuggestions

C1_Witness ==
  /\ op = "generateAISuggestion"
  /\ NamesTrimmed(arg.current, litBreathlessness)
  /\ Names(arg.current, litHeadache)
  /\ arg.current.temperature = Num(12500)
  /\ Len(arg.history) > 0
  /\ Len(userProfile.medications) > 0
  /\ ret.suggestions = FixedUrgentSuggestions

\* C2: feverSeverityFromRecord returns the bucket of the Fahrenheit value of
\* a present temperature (<98: 0, <99.5: 2, <100.4: 4, <102: 7, else 9), and
\* for an absent temperature 5 when the symptoms name fever and 0 otherwise.
C2_FeverSeverityBuckets ==
  op = "feverSeverityFromRecord" =>
    LET t == arg.current.temperature IN
    /\ t.k = "num" => ret = FeverBucket(Fahrenheit(t.v))
    /\ t.k = "null" => ret = (IF Names(arg.current, litFever) THEN 5 ELSE 0)

C2_Witness ==
  /\ op = "feverSeverityFromRecord"
  /\ arg.current.temperature = Num(3800)
  /\ ret = 7

\* C3: painSeverityFromRecord is min(9, 6*[chest pain] + 3*[headache] +
\* 1*[fatigue]), symptoms compared case-insensitively; it lies in 0..9 and is
\* exactly 9 for a record with all three symptoms.
C3_PainSeverityAdditiveCapped ==
  op = "painSeverityFromRecord" =>
    LET sum == (IF Names(arg.current, litChestPain) THEN 6 ELSE 0)
             + (IF Names(arg.current, litHeadache) THEN 3 ELSE 0)
             + (IF Names(arg.current, litFatigue) THEN 1 ELSE 0)
    IN /\ ret = (IF sum < 9 THEN sum ELSE 9)
       /\ ret \in 0..9
       /\ (sum = 10 => ret = 9)

C3_Witness ==
  /\ op = "painSeverityFromRecord"
  /\ Names(arg.current, litChestPain)
  /\ Names(arg.current, litHeadache)
  /\ Names(arg.current, litFatigue)
  /\ ret = 9

\* C4: feverSeverityFromRecord, analyzeHealthData and generateAISuggestion
\* band one and the same value for a raw reading: its Fahrenheit value
\* rounded to one decimal place.
C4_SameRoundedValue ==
  LET t == arg.current.temperature
      f == FahrenheitRounded(t.v)
  IN t.k = "num" =>
     /\ op = "feverSeverityFromRecord" => ret = FeverBucket(f)
     /\ op = "analyzeHealthData" =>
          (ret.level = "normal" <=> (f >= 95000 /\ f <= 100400))
     /\ (op = "generateAISuggestion" /\ ~NamesEmergency(arg.current)
           /\ (f >= 99500 \/ f < 95000)) => ret.reasons[1].temp = f

\* C5: analyzeHealthData takes the first matching arm: above 103 F (also
\* above 120 F) urgent with the seek-medical-care text; otherwise below 92 F
\* (also below 50 F) urgent with the low-body-temperature text; otherwise
\* outside [95, 100.4] warning with the monitor-and-hydrate text.
C5_FirstMatchCascade ==
  (op = "analyzeHealthData" /\ arg.current.temperature.k = "num") =>
    LET f == Fahrenheit(arg.current.temperature.v) IN
    /\ f > 103000 =>
         /\ ret.level = "urgent"
         /\ ret.recommendations = <<"High fever or hypothermia - seek medical care">>
    /\ f < 92000 =>
         /\ ret.level = "urgent"
         /\ ret.recommendations = <<"low body temperature - seek medical care">>
    /\ ((f >= 92000 /\ f < 95000) \/ (f > 100400 /\ f <= 103000)) =>
         /\ ret.level = "warning"
         /\ ret.recommendations = <<"Monitor temperature and stay hydrated">>

C5_Witness ==
  /\ op = "analyzeHealthData"
  /\ arg.current.temperature = Num(12500)
  /\ ret.level = "urgent"

\* C6: a temperature above 120 F makes analyzeHealthData return level
\* emergency with the thermometer-fault recommendation.
C6_SensorFaultAbove120 ==
  (op = "analyzeHealthData" /\ arg.current.temperature.k = "num"
     /\ Fahrenheit(arg.current.temperature.v) > 120000) =>
    /\ ret.level = "emergency"
    /\ ret.recommendations = <<"very high temperature - fault in thermometer">>

\* C7: analyzeHealthData returns level normal exactly when the record has no
\* temperature reading or its Fahrenheit value lies in [95, 100.4]; then no
\* issue is flagged and the recommendations are the two baseline texts.
C7_NormalIffInRange ==
  op = "analyzeHealthData" =>
    LET t == arg.current.temperature
        inRange == Fahrenheit(t.v) >= 95000 /\ Fahrenheit(t.v) <= 100400
    IN /\ ret.level = "normal" <=> (t.k # "num" \/ inRange)
       /\ ret.level = "normal" =>
            /\ ret.message.issues = <<>>
            /\ ret.recommendations = <<"Continue monitoring daily",
                                       "Maintain healthy diet and exercise">>

C7_Witness ==
  /\ op = "analyzeHealthData"
  /\ arg.current.temperature = Num(3800)
  /\ ret.level = "normal"

\* the elements of list are pairwise different
NoDuplicates(list) ==
  \A i \in 1..Len(list) : \A j \in 1..Len(list) : i # j => list[i] # list[j]

\* C13: in every result of generateAISuggestion no two suggestions are equal
\* and the summary is the first element of suggestions.
C13_SummaryIsFirstSuggestion ==
  op = "generateAISuggestion" =>
    /\ NoDuplicates(ret.suggestions)
    /\ Len(ret.suggestions) > 0
    /\ ret.summary = ret.suggestions[1]

\* C13, amended: no two suggestions are equal; the summary is the first
\* element of suggestions when the record names no emergency symptom, and
\* the fixed urgent text, which is not among the suggestions, when it does.
C13_SummaryIsFirstUnlessEmergency ==
  op = "generateAISuggestion" =>
    /\ NoDuplicates(ret.suggestions)
    /\ Len(ret.suggestions) > 0
    /\ ~NamesEmergency(arg.current) => ret.summary = ret.suggestions[1]
    /\ NamesEmergency(arg.current) =>
         /\ ret.summary = Text("URGENT: Chest pain / breathlessness - seek emergency care now.")
         /\ \A i \in 1..Len(ret.suggestions) : ret.suggestions[i] # ret.summary

C13_Witness ==
  /\ op = "generateAISuggestion"
  /\ ~NamesEmergency(arg.current)
  /\ Len(ret.suggestions) >= 3
  /\ ret.summary = ret.suggestions[1]

\* the record with its temperature field removed
WithoutTemperature(record) == [record EXCEPT !.temperature = NoTemp]

\* C14: a record whose temperature is not a finite number gets from
\* feverSeverityFromRecord, analyzeHealthData and generateAISuggestion the
\* result the same record gets with the temperature field removed.
C14_NonFiniteAsAbsent ==
  arg.current.temperature = NaNTemp =>
    /\ op = "feverSeverityFromRecord" =>
         ret = feverSeverityFromRecord(WithoutTemperature(arg.current))
    /\ op = "analyzeHealthData" =>
         ret = analyzeHealthData(WithoutTemperature(arg.current), arg.history)
    /\ op = "generateAISuggestion" =>
         ret = generateAISuggestion(WithoutTemperature(arg.current),
                                    arg.history, userProfile)

\* C15: for a record with temperature 39 and no symptoms the normalised
\* temperature is 102.2 F and feverSeverityFromRecord returns 7.
C15_Fever39Severity7 ==
  (op = "feverSeverityFromRecord" /\ arg.current.temperature = Num(3900)
     /\ arg.current.symptoms = <<>>) =>
    /\ toFahrenheit(arg.current.temperature.v) = 102200
    /\ ret = 7

\* C15, amended: for a record with temperature 39 and no symptoms the
\* normalised temperature is 102.2 F, which is not below 102, and
\* feverSeverityFromRecord returns 9.
C15_Fever39Severity9 ==
  (op = "feverSeverityFromRecord" /\ arg.current.temperature = Num(3900)
     /\ arg.current.symptoms = <<>>) =>
    /\ toFahrenheit(arg.current.temperature.v) = 102200
    /\ roundOneDecimal(toFahrenheit(arg.current.temperature.v)) = 102200
    /\ ret = 9

C15_Witness ==
  /\ op = "feverSeverityFromRecord"
  /\ arg.current.temperature = Num(3900)
  /\ arg.current.symptoms = <<>>
  /\ ret = 9

\* the suggestions generateAISuggestion has for a temperature or a reported
\* fever
UrgentCareText == Text("High fever (>=104F) - seek urgent medical care.")
FeverDetectedText == Text("Fever detected - rest, hydrate, take antipyretic like paracetamol per dosing instructions, recheck in 2-4 hours.")
LowGradeText == Text("Low-grade fever - monitor, rest, hydrate. Contact clinician if it rises or other concerning symptoms appear.")
RemeasureText == Text("Measured temperature unusually low - verify thermometer and re-measure; seek care if symptomatic.")
MeasureFeverText == Text("Reported fever symptom - measure temperature, hydrate, consider antipyretic if needed.")
TemperatureTexts ==
  {UrgentCareText, FeverDetectedText, LowGradeText, RemeasureText, MeasureFeverText}

\* the text is one of the suggestions
Suggests(suggestions, text) ==
  \E i \in 1..Len(suggestions) : suggestions[i] = text

\* C21: for a record that names no emergency symptom generateAISuggestion
\* gives at most one temperature suggestion, chosen by the Fahrenheit value
\* rounded to one decimal place: urgent care from 104, "Fever detected" from
\* 100.4, low-grade fever from 99.5, re-measure below 95, none in [95, 99.5);
\* and without a temperature, the fever-measurement suggestion exactly when
\* the symptoms contain "fever".
C21_OneTemperatureSuggestion ==
  (op = "generateAISuggestion" /\ ~NamesEmergency(arg.current)) =>
    LET t == arg.current.temperature
        f == FahrenheitRounded(t.v)
        given == {x \in TemperatureTexts : Suggests(ret.suggestions, x)}
    IN /\ Cardinality(given) <= 1
       /\ t.k = "num" =>
            /\ f >= 104000 => given = {UrgentCareText}
            /\ (f >= 100400 /\ f < 104000) => given = {FeverDetectedText}
            /\ (f >= 99500 /\ f < 100400) => given = {LowGradeText}
            /\ f < 95000 => given = {RemeasureText}
            /\ (f >= 95000 /\ f < 99500) => given = {}
       /\ t.k # "num" =>
            (given = {MeasureFeverText} <=> NamesTrimmed(arg.current, litFever))

\* a reading of 100.36 F, below 100.4 before it is rounded, with a reported
\* fever: the "Fever detected" suggestion and no other temperature suggestion
C21_Witness ==
  /\ op = "generateAISuggestion"
  /\ ~NamesEmergency(arg.current)
  /\ arg.current.temperature = Num(10036)
  /\ NamesTrimmed(arg.current, litFever)
  /\ Suggests(ret.suggestions, FeverDetectedText)
  /\ ~Suggests(ret.suggestions, MeasureFeverText)

NoUrgentIssuesText == Text("No urgent issues detected. Monitor daily, rest, hydrate, and seek care if symptoms worsen.")

\* what the temperature, pain, trend and profile steps push for the inputs
StepsPush(current, history, profile) ==
  temperatureStep(toNumber(current.temperature), symptomsLowerTrimmed(current))
    \o painStep(current) \o trendStep(current, history) \o profileStep(profile)

\* C23: the suggestions of generateAISuggestion are never empty, and the
\* "No urgent issues detected" suggestion is among them exactly when the
\* temperature, pain, trend and profile steps have nothing to push for the
\* inputs; it is then the only suggestion.
C23_FallbackIffNothingPushed ==
  op = "generateAISuggestion" =>
    LET nothing == StepsPush(arg.current, arg.history, userProfile) = <<>> IN
    /\ Len(ret.suggestions) > 0
    /\ Suggests(ret.suggestions, NoUrgentIssuesText) <=> nothing
    /\ nothing => ret.suggestions = <<NoUrgentIssuesText>>

\* C23, amended: the suggestions are never empty; for a record that names no
\* emergency symptom the "No urgent issues detected" suggestion is among them
\* exactly when the four steps have nothing to push, and it is then the only
\* one; for a record that names an emergency symptom the fallback is not
\* reached and the suggestion is never given.
C23_FallbackUnlessEmergency ==
  op = "generateAISuggestion" =>
    LET nothing   == StepsPush(arg.current, arg.history, userProfile) = <<>>
        emergency == NamesEmergency(arg.current)
        fallback  == Suggests(ret.suggestions, NoUrgentIssuesText)
    IN /\ Len(ret.suggestions) > 0
       /\ ~emergency =>
            /\ fallback <=> nothing
            /\ nothing => ret.suggestions = <<NoUrgentIssuesText>>
       /\ emergency => ~fallback

\* a record with a normal reading and a cough only, an earlier record and a
\* profile without medications and allergies
C23_Witness ==
  /\ op = "generateAISuggestion"
  /\ arg.current.temperature = Num(3700)
  /\ arg.current.symptoms = <<Vocabulary[8]>>
  /\ Len(arg.history) = 1
  /\ userProfile = Profile(<<>>, <<>>)
  /\ ret.suggestions = <<NoUrgentIssuesText>>

SeverePainText == Text("Severe pain - consider urgent clinical assessment.")
ModeratePainText == Text("Moderate pain - rest, consider an analgesic per usual guidance, and contact clinician if pain persists or worsens.")

\* C27: generateAISuggestion never gives the "Severe pain" suggestion: a
\* pain score of 8 or more needs the symptom "chest pain", every record with
\* that symptom gets the emergency result, and a record that reaches the
\* pain step has a pain score of at most 4.
C27_SeverePainUnreachable ==
  op = "generateAISuggestion" =>
    LET painScore == painSeverityFromRecord(arg.current)
        chestPain == Names(arg.current, litChestPain)
        emergency == NamesEmergency(arg.current)
    IN /\ ~Suggests(ret.suggestions, SeverePainText)
       /\ painScore >= 8 => chestPain
       /\ chestPain =>
            /\ emergency
            /\ ret.suggestions = FixedUrgentSuggestions
       /\ ~emergency => painScore <= 4

\* headache and fatigue, the highest score that reaches the pain step
C27_Witness ==
  /\ op = "generateAISuggestion"
  /\ ~NamesEmergency(arg.current)
  /\ painSeverityFromRecord(arg.current) = 4
  /\ Suggests(ret.suggestions, ModeratePainText)

(***************************************************************************)
(* SpecTrend: generateAISuggestion and the two scorers on histories that   *)
(* hold entries behind history[0]                                          *)
(***************************************************************************)
\* earlier records with fever severities 0, 4 and 9 and pain severities 0,
\* 3 and 4
TrendPriors ==
  {Record("r1", NoTemp, <<>>),
   Record("r1", NoTemp, <<Vocabulary[5]>>),
   Record("r1", Num(3750), <<Vocabulary[7]>>),
   Record("r1", Num(3900), <<Vocabulary[5], Vocabulary[6]>>)}

\* current records with fever severities 0, 2, 4, 5, 7 and 9
TrendCurrents ==
  {c \in Currents :
     c.temperature \in {NoTemp, NaNTemp, Num(3500), Num(3700), Num(3750),
                        Num(3800), Num(3900)}}

TrendHistories == SeqsUpTo(TrendPriors, 1 + MaxOlder)

InitTrend ==
  /\ userProfile \in {NoProfile, Profile(<<"Aspirin">>, <<>>)}
  /\ arg \in [current : TrendCurrents, history : TrendHistories]
  /\ op = "none"
  /\ ret = NoRet
  /\ hospitals = <<>>
  /\ userLat = NoCoord
  /\ userLon = NoCoord
  /\ storeHospitals = {}
  /\ pc = "boot"
  /\ InitApp

NextTrend ==
  \/ CallFeverSeverity
  \/ CallPainSeverity
  \/ CallGenerateAISuggestion

SpecTrend == InitTrend /\ [][NextTrend]_vars

FeverTrendText == Text("Fever trending up compared to previous check - contact clinician if it continues to rise.")
PainTrendText == Text("Pain worsening vs previous check - consider contacting your doctor.")

\* C22: for a record that names no emergency symptom and a non-empty
\* history, generateAISuggestion gives the upward-fever-trend suggestion
\* exactly when the record's fever severity is greater than that of
\* history[0] and at least 4, and the worsening-pain suggestion exactly when
\* its pain severity is greater than that of history[0] and at least 4; the
\* entries behind history[0] do not change the result, and with an empty
\* history neither suggestion is given.
C22_TrendAgainstLatestOnly ==
  (op = "generateAISuggestion" /\ ~NamesEmergency(arg.current)) =>
    LET currF == feverSeverityFromRecord(arg.current)
        currP == painSeverityFromRecord(arg.current)
    IN /\ arg.history # <<>> =>
            LET prevF == feverSeverityFromRecord(arg.history[1])
                prevP == painSeverityFromRecord(arg.history[1])
            IN /\ Suggests(ret.suggestions, FeverTrendText)
                    <=> (currF > prevF /\ currF >= 4)
               /\ Suggests(ret.suggestions, PainTrendText)
                    <=> (currP > prevP /\ currP >= 4)
               /\ ret = generateAISuggestion(arg.current, <<arg.history[1]>>,
                                             userProfile)
       /\ arg.history = <<>> =>
            /\ ~Suggests(ret.suggestions, FeverTrendText)
            /\ ~Suggests(ret.suggestions, PainTrendText)

\* both trends against history[0], whose severities are 0 and 0, while the
\* entry behind it has severities 9 and 4
C22_Witness ==
  /\ op = "generateAISuggestion"
  /\ ~NamesEmergency(arg.current)
  /\ Len(arg.history) = 2
  /\ feverSeverityFromRecord(arg.history[2]) = 9
  /\ painSeverityFromRecord(arg.history[2]) = 4
  /\ feverSeverityFromRecord(arg.history[1]) = 0
  /\ Suggests(ret.suggestions, FeverTrendText)
  /\ Suggests(ret.suggestions, PainTrendText)

(***************************************************************************)
(* SpecGeo: getDistance on every combination of coordinates, and           *)
(* formatDistance on what it returns (h.Distance =                         *)
(* formatDistance(h.distanceKm))                                           *)
(***************************************************************************)
Coords == {NoCoord, NaNCoord, Deg(0), Deg(1), Deg(2)}

InitGeo ==
  /\ userProfile = NoProfile
  /\ arg = NoArg
  /\ op = "none"
  /\ ret = NoRet
  /\ hospitals = <<>>
  /\ userLat = NoCoord
  /\ userLon = NoCoord
  /\ storeHospitals = {}
  /\ pc = "boot"
  /\ InitApp

CallGetDistance ==
  \E lat1 \in Coords, lon1 \in Coords, lat2 \in Coords, lon2 \in Coords :
    /\ op' = "getDistance"
    /\ arg' = [lat1 |-> lat1, lon1 |-> lon1, lat2 |-> lat2, lon2 |-> lon2]
    /\ ret' = getDistance(lat1, lon1, lat2, lon2)
    /\ UNCHANGED <<appVars, userProfile, hospVars>>

CallFormatDistance ==
  /\ op = "getDistance"
  /\ op' = "formatDistance"
  /\ arg' = [km |-> ret, of |-> arg]
  /\ ret' = formatDistance(ret)
  /\ UNCHANGED <<appVars, userProfile, hospVars>>

NextGeo ==
  \/ CallGetDistance
  \/ CallFormatDistance

SpecGeo == InitGeo /\ [][NextGeo]_vars

\* C10: getDistance returns Infinity whenever one of its four coordinates is
\* null, undefined or NaN and a finite value otherwise; formatDistance
\* renders an unknown (infinite) distance as "Unknown", never as a number.
C10_UnknownDistanceSentinel ==
  /\ op = "getDistance" =>
       LET missing == \E f \in {"lat1", "lon1", "lat2", "lon2"} : arg[f].k \in {"null", "nan"}
       IN IF missing THEN ret = Infinity ELSE ret.k = "num"
  /\ op = "formatDistance" =>
       LET missing == \E f \in {"lat1", "lon1", "lat2", "lon2"} : arg.of[f].k \in {"null", "nan"}
       IN /\ arg.km = Infinity => ret.unit = "Unknown"
          /\ missing => ret.unit = "Unknown"
          /\ ret.unit = "Unknown" => missing

C10_Witness ==
  /\ op = "formatDistance"
  /\ arg.of.lat1 = NoCoord
  /\ arg.of.lon1 = Deg(1)
  /\ arg.of.lat2 = Deg(2)
  /\ arg.of.lon2 = Deg(0)
  /\ arg.km = Infinity
  /\ ret.unit = "Unknown"

(***************************************************************************)
(* The IndexedDB object store "hospitals": at most one value per Name;     *)
(* getAll returns the values in key order                                  *)
(***************************************************************************)
\* the characters of the modelled strings in UTF-16 code unit order
CodeUnits ==
  <<" ", ",">> \o UpperChars \o LowerChars

codeUnit(c) == CHOOSE i \in 1..Len(CodeUnits) : CodeUnits[i] = c

\* a precedes b in IndexedDB key order
keyLess(a, b) ==
  \/ \E i \in 1..Len(a) :
       /\ i <= Len(b)
       /\ \A j \in 1..(i - 1) : a[j] = b[j]
       /\ codeUnit(a[i]) < codeUnit(b[i])
  \/ Len(a) < Len(b) /\ SubSeq(b, 1, Len(a)) = a

dbPut(store, value) == {x \in store : x.Name # value.Name} \cup {value}

RECURSIVE dbGetAll(_)
dbGetAll(store) ==
  IF store = {} THEN <<>>
  ELSE LET first == CHOOSE x \in store : \A y \in store : y = x \/ keyLess(x.Name, y.Name)
       IN <<first>> \o dbGetAll(store \ {first})

\* Promise.all(hospitals.map((h) => dbPut(STORE_HOSPITALS, h)))
dbPutAll(store, list) ==
  LET F[i \in 0..Len(list)] == IF i = 0 THEN store ELSE dbPut(F[i - 1], list[i])
  IN F[Len(list)]

(***************************************************************************)
(* SpecHosp: sessions of the page.  Each session gets the location or      *)
(* fails to, loads the persisted hospitals, fetches them when none were    *)
(* stored, and answers searches.                                           *)
(***************************************************************************)
\* elements of Overpass responses
Catalogue ==
  <<[lat |-> Deg(0), lon |-> Deg(0),
      tags |-> [name |-> <<"H","e","a","r","t"," ","C","a","r","e">>,
               description |-> <<>>,
               specialty |-> <<>>,
               specialties |-> <<>>,
               emergency |-> TRUE]],
     [lat |-> Deg(0), lon |-> Deg(1),
      tags |-> [name |-> <<"C","i","t","y"," ","H","o","s","p","i","t","a","l">>,
               description |-> <<>>,
               specialty |-> <<>>,
               specialties |-> <<"H","e","a","r","t"," ","S","u","r","g","e","r","y",","," ","E","y","e">>,
               emergency |-> FALSE]],
     [lat |-> Deg(1), lon |-> Deg(1),
      tags |-> [name |-> <<"E","y","e"," ","C","l","i","n","i","c">>,
               description |-> <<"c","a","r","d","i","a","c"," ","u","n","i","t">>,
               specialty |-> <<"C","a","r","d","i","o","l","o","g","y">>,
               specialties |-> <<>>,
               emergency |-> FALSE]],
     [lat |-> NoCoord, lon |-> NoCoord,
      tags |-> [name |-> <<>>,
               description |-> <<>>,
               specialty |-> <<>>,
               specialties |-> <<>>,
               emergency |-> TRUE]],
     [lat |-> Deg(2), lon |-> Deg(2),
      tags |-> [name |-> <<"G","e","n","e","r","a","l"," ","H","e","a","r","t"," ","H","o","s","p","i","t","a","l">>,
               description |-> <<>>,
               specialty |-> <<>>,
               specialties |-> <<>>,
               emergency |-> FALSE]]>>

Responses ==
  {selectAt(Catalogue, S) :
     S \in {T \in SUBSET (1..Len(Catalogue)) : Cardinality(T) <= MaxElements}}

UserCoords == {Deg(0), Deg(1)}

Queries ==
  {<<"h","e","a","r","t">>,
   <<" ","H","e","a","r","t"," ">>,
   <<"e","y","e">>,
   <<"g","e","n","e","r","a","l">>,
   <<"h","o","s","p","i","t","a","l">>,
   <<"x","y","z">>,
   <<>>,
   <<" ">>}

InitHosp ==
  /\ userProfile = NoProfile
  /\ arg = NoArg
  /\ op = "none"
  /\ ret = NoRet
  /\ hospitals = <<>>
  /\ userLat = NoCoord
  /\ userLon = NoCoord
  /\ storeHospitals = {}
  /\ pc = "boot"
  /\ InitApp

\* the success callback of getCurrentPosition (lines 955-957)
GeoSuccess ==
  \E lat \in UserCoords, lon \in UserCoords :
    /\ pc = "boot"
    /\ userLat' = lat
    /\ userLon' = lon
    /\ pc' = "geoOk"
    /\ op' = "geolocation"
    /\ arg' = NoArg
    /\ ret' = NoRet
    /\ UNCHANGED <<appVars, userProfile, hospitals, storeHospitals>>

\* an error callback that reports the error and does not go on to
\* loadPersistedData
GeoErrorOnlyReports ==
  /\ pc = "boot"
  /\ pc' = "geoReported"
  /\ op' = "geolocation"
  /\ arg' = NoArg
  /\ ret' = NoRet
  /\ UNCHANGED <<appVars, userProfile, hospitals, userLat, userLon, storeHospitals>>

\* the error callback (also the timeout), or no geolocation API
GeoError ==
  /\ pc = "boot"
  /\ pc' = "geoErr"
  /\ op' = "geolocation"
  /\ arg' = NoArg
  /\ ret' = NoRet
  /\ UNCHANGED <<appVars, userProfile, hospitals, userLat, userLon, storeHospitals>>

\* the list hospitals after lines 260-270 of loadPersistedData, from the
\* store, the list hs before and the user at (lat, lon)
loadedHospitals(store, hs, lat, lon) ==
  LET savedHosp == dbGetAll(store)
      loaded == [i \in 1..Len(savedHosp) |->
                   [savedHosp[i] EXCEPT !.distanceKm = orNull(@)]]
      located == lat.k # "null" /\ lon.k # "null"
      recomputed == [i \in 1..Len(loaded) |-> withDistance(loaded[i], lat, lon)]
  IN IF Len(savedHosp) = 0 THEN hs
     ELSE IF located THEN sortByDistance(recomputed)
     ELSE loaded

\* loadPersistedData, the hospitals part (lines 260-270), and the decision
\* of line 961 to fetch when the list is still empty
LoadPersistedData ==
  /\ pc \in {"geoOk", "geoErr"}
  /\ hospitals' = loadedHospitals(storeHospitals, hospitals, userLat, userLon)
  /\ pc' = IF pc = "geoOk" /\ Len(hospitals') = 0 THEN "fetch" ELSE "ready"
  /\ op' = "loadPersistedData"
  /\ arg' = NoArg
  /\ ret' = NoRet
  /\ UNCHANGED <<appVars, userProfile, userLat, userLon, storeHospitals>>

\* fetchHospitals(userLat, userLon) from the arrival of an ok response to the
\* output line, the store accepting the writes
fetched(response) ==
  /\ userLat.k # "null" /\ userLon.k # "null"
  /\ LET built == [i \in 1..Len(response) |->
                     withDistance(hospitalOf(response[i]), userLat, userLon)]
     IN /\ hospitals' = sortByDistance(built)
        /\ storeHospitals' = dbPutAll({}, hospitals')
  /\ pc' = "ready"
  /\ op' = "fetchHospitals"
  /\ arg' = [before |-> hospitals, response |-> response]
  /\ ret' = [failed |-> FALSE, output |-> "Fetched hospitals"]
  /\ UNCHANGED <<appVars, userProfile, userLat, userLon>>

\* fetchHospitals(userLat, userLon) when the response arrives and the store
\* accepts the writes
FetchHospitals ==
  \E response \in Responses :
    /\ pc = "fetch"
    /\ fetched(response)

\* fetchHospitals when the response arrives but the store rejects a write
\* (lines 232-233): the list is already assigned (line 206); of the puts,
\* each a transaction of its own, those in stored went through
FetchHospitalsStoreError ==
  \E response \in Responses :
    /\ pc = "fetch"
    /\ userLat.k # "null" /\ userLon.k # "null"
    /\ LET built == [i \in 1..Len(response) |->
                       withDistance(hospitalOf(response[i]), userLat, userLon)]
       IN /\ hospitals' = sortByDistance(built)
          /\ \E stored \in SUBSET (1..Len(response)) :
               /\ stored # 1..Len(response)
               /\ storeHospitals' = dbPutAll({}, selectAt(hospitals', stored))
    /\ pc' = "ready"
    /\ op' = "fetchHospitals"
    /\ arg' = [before |-> hospitals]
    /\ ret' = [failed |-> TRUE, output |-> "Failed to fetch hospitals"]
    /\ UNCHANGED <<appVars, userProfile, userLat, userLon>>

\* fetchHospitals when fetch rejects or the response is not ok: the catch
\* block reports it
FetchHospitalsNetworkError ==
  /\ pc = "fetch"
  /\ pc' = "ready"
  /\ op' = "fetchHospitals"
  /\ arg' = [before |-> hospitals]
  /\ ret' = [failed |-> TRUE, output |-> "Failed to fetch hospitals"]
  /\ UNCHANGED <<appVars, userProfile, hospitals, userLat, userLon, storeHospitals>>

\* nearest(type), called by searchHospitals
Nearest ==
  \E type \in Queries :
    LET r == nearest(type, hospitals, userLat, userLon) IN
    /\ op' = "nearest"
    /\ arg' = [type |-> type]
    /\ ret' = [isNull |-> r.isNull, list |-> r.list]
    /\ hospitals' = r.hospitals
    /\ UNCHANGED <<appVars, userProfile, userLat, userLon, storeHospitals, pc>>

\* the page is loaded again, which takes more than a millisecond: the module
\* state starts over, the stores stay
Reload ==
  /\ pc = "ready"
  /\ submitQ = <<>> /\ profileQ = <<>>
  /\ now < MaxClock
  /\ now' = now + 1
  /\ pc' = "boot"
  /\ hospitals' = <<>>
  /\ userLat' = NoCoord
  /\ userLon' = NoCoord
  /\ userProfile' = NoProfile
  /\ healthRecords' = <<>>
  /\ activeAlert' = NoAlert
  /\ aiSuggestion' = NoSuggestion
  /\ genLast' = NoCall
  /\ op' = "none"
  /\ arg' = NoArg
  /\ ret' = NoRet
  /\ UNCHANGED <<storeHospitals, storeRecords, storeProfile, submitQ, profileQ>>

NextHosp ==
  \/ GeoSuccess
  \/ GeoError
  \/ LoadPersistedData
  \/ FetchHospitals
  \/ FetchHospitalsNetworkError
  \/ FetchHospitalsStoreError
  \/ Nearest
  \/ Reload

SpecHosp == InitHosp /\ [][NextHosp]_vars

(***************************************************************************)
(* Properties of the hospital matcher                                      *)
(***************************************************************************)
\* q occurs in s
Occurs(q, s) ==
  \E start \in 1..(Len(s) + 1) :
    \A j \in 1..Len(q) : start + j - 1 <= Len(s) /\ s[start + j - 1] = q[j]

\* the three ways a hospital matches the lower-cased, trimmed query q
QueryMatches(h, q) ==
  \/ toLowerCase(h.Category[1]) = q
  \/ \E i \in 1..Len(h.specialties) : Occurs(q, toLowerCase(h.specialties[i]))
  \/ Occurs(q, toLowerCase(h.Name))

Matching == {i \in 1..Len(hospitals) : QueryMatches(hospitals[i], trim(toLowerCase(arg.type)))}

Returned(h) == \E k \in 1..Len(ret.list) : ret.list[k] = h

\* C8: for a query, nearest returns only hospitals that match it by
\* category (equal), by a specialty tag (substring) or by name (substring),
\* case-insensitively after trimming; when at most 3 hospitals match it
\* returns every one of them.
C8_NearestReturnsMatches ==
  (op = "nearest" /\ arg.type # <<>>) =>
    /\ \A k \in 1..Len(ret.list) : \E i \in Matching : hospitals[i] = ret.list[k]
    /\ Cardinality(Matching) <= 3 =>
         /\ \A i \in Matching : Returned(hospitals[i])
         /\ Len(ret.list) = Cardinality(Matching)

C8_Witness ==
  /\ op = "nearest"
  /\ arg.type = <<" ","H","e","a","r","t"," ">>
  /\ Len(hospitals) = 4
  /\ Len(ret.list) = 3
  /\ \E k \in 1..3 : ret.list[k].Name = <<"C","i","t","y"," ","H","o","s","p","i","t","a","l">>
  /\ \E k \in 1..3 : ret.list[k].Name = <<"E","y","e"," ","C","l","i","n","i","c">>

\* distance a is no greater than distance b, an unknown (infinite) distance
\* being greater than every known one and zero the smallest known one
NoFarther(a, b) ==
  \/ b.k = "inf"
  \/ a.k = "num" /\ b.k = "num" /\ a.v <= b.v

\* C9: the list nearest returns is in ascending order of distance, hospitals
\* of unknown distance after all of known distance and a hospital at
\* distance zero first, and it holds the 3 matching hospitals of smallest
\* distance.
C9_AscendingKnownFirst ==
  (op = "nearest" /\ ~ret.isNull) =>
    /\ \A i \in 1..Len(ret.list) : \A j \in i..Len(ret.list) :
         NoFarther(ret.list[i].distanceKm, ret.list[j].distanceKm)
    /\ \A i \in Matching :
         ~Returned(hospitals[i]) =>
           \A k \in 1..Len(ret.list) :
             NoFarther(ret.list[k].distanceKm, hospitals[i].distanceKm)
    /\ Len(ret.list) = (IF Cardinality(Matching) < 3 THEN Cardinality(Matching) ELSE 3)

\* C18: whenever the hospital list is in use, every hospital's distance is
\* the one getDistance gives for the current user location, and is unknown
\* (infinite, or null until the next search) when getDistance gives none.
C18_DistancesForCurrentLocation ==
  pc = "ready" =>
    \A i \in 1..Len(hospitals) :
      LET h == hospitals[i]
          d == getDistance(userLat, userLon, h.lat, h.lng)
      IN IF d.k = "inf" THEN h.distanceKm.k \in {"inf", "null"}
         ELSE h.distanceKm = d

\* C19: a call of fetchHospitals that fails leaves the list hospitals as it
\* was before the call and reports the failure in the output line.
C19_FailedFetchKeepsList ==
  (op = "fetchHospitals" /\ ret.failed) =>
    /\ hospitals = arg.before
    /\ ret.output = "Failed to fetch hospitals"

(***************************************************************************)
(* SpecDetect: fetchHospitals on responses of one element whose name and   *)
(* description hold keywords of no, one or several categories, and the     *)
(* searches that follow                                                    *)
(***************************************************************************)
DetectNames ==
  {<<>>,
   <<"C","i","t","y"," ","H","o","s","p","i","t","a","l">>,
   <<"H","e","a","r","t"," ","C","a","r","e">>,
   <<"C","A","R","D","I","O"," ","C","e","n","t","r","e">>,
   <<"E","y","e"," ","a","n","d"," ","B","o","n","e">>,
   <<"O","r","t","h","o","p","e","d","i","c"," ","V","i","s","i","o","n">>,
   <<"T","u","m","o","u","r"," ","U","n","i","t">>,
   <<"S","k","i","n"," ","a","n","d"," ","T","e","e","t","h">>,
   <<"W","o","m","e","n"," ","a","n","d"," ","C","h","i","l","d">>,
   <<"B","r","a","i","n"," ","C","l","i","n","i","c">>,
   <<"E","y","e"," ","C","l","i","n","i","c">>,
   <<"D","e","n">>}

DetectDescriptions ==
  {<<>>,
   <<"c","a","r","d","i","a","c"," ","u","n","i","t">>,
   <<"D","e","r","m","a","t","o","l","o","g","y">>,
   <<"g","e","n","e","r","a","l"," ","w","a","r","d">>,
   <<"O","B","G","Y","N">>,
   <<"t","a","l"," ","c","a","r","e">>}

DetectResponses ==
  {<<[lat |-> Deg(0), lon |-> Deg(1),
      tags |-> [name |-> n, description |-> d, specialty |-> <<>>,
                specialties |-> <<>>, emergency |-> FALSE]]>> :
     n \in DetectNames, d \in DetectDescriptions}

\* safeInit about to call fetchHospitals (line 961): the position is known
\* and loadPersistedData found no stored hospitals
InitDetect ==
  /\ userProfile = NoProfile
  /\ arg = NoArg
  /\ op = "loadPersistedData"
  /\ ret = NoRet
  /\ hospitals = <<>>
  /\ userLat = Deg(0)
  /\ userLon = Deg(0)
  /\ storeHospitals = {}
  /\ pc = "fetch"
  /\ InitApp

FetchDetected ==
  \E response \in DetectResponses :
    /\ pc = "fetch"
    /\ fetched(response)

NextDetect ==
  \/ FetchDetected
  \/ Nearest

SpecDetect == InitDetect /\ [][NextDetect]_vars

\* the categories of the taxonomy, in table order
Taxonomy ==
  << <<"h","e","a","r","t">>, <<"b","o","n","e">>, <<"c","a","n","c","e","r">>,
     <<"n","e","u","r","o">>, <<"d","e","n","t","a","l">>, <<"e","y","e">>,
     <<"s","k","i","n">>, <<"c","h","i","l","d">>, <<"w","o","m","e","n">>,
     <<"g","e","n","e","r","a","l">> >>

\* a keyword of the t-th category occurs in the lower-cased name or in the
\* lower-cased description
KeywordOccurs(t, tags) ==
  \E k \in 1..Len(diseaseTypes[t].keys) :
    \/ Occurs(diseaseTypes[t].keys[k], toLowerCase(tags.name))
    \/ Occurs(diseaseTypes[t].keys[k], toLowerCase(tags.description))

\* the first category, in table order, with a keyword in the name or the
\* description; general when there is none
FirstCategory(tags) ==
  IF \E t \in 1..Len(Taxonomy) : KeywordOccurs(t, tags)
  THEN Taxonomy[CHOOSE t \in 1..Len(Taxonomy) :
                  /\ KeywordOccurs(t, tags)
                  /\ \A u \in 1..(t - 1) : ~KeywordOccurs(u, tags)]
  ELSE Taxonomy[Len(Taxonomy)]

\* C24, at ingestion: the category fetchHospitals stores for an element is
\* the single category detectDiseaseType returns, a member of the taxonomy:
\* the first in table order with a keyword in the lower-cased name or
\* description, general when no keyword occurs.
CategoryAtIngestion ==
  (op = "fetchHospitals" /\ ~ret.failed) =>
    \A i \in 1..Len(arg.response) :
      LET tags == arg.response[i].tags IN
      /\ detectDiseaseType(tags) = FirstCategory(tags)
      /\ \E t \in 1..Len(Taxonomy) : detectDiseaseType(tags) = Taxonomy[t]
      /\ \E j \in 1..Len(hospitals) :
           /\ hospitals[j] = withDistance(hospitalOf(arg.response[i]), userLat, userLon)
           /\ hospitals[j].Category = <<FirstCategory(tags)>>

\* C24, at a search: nearest leaves every hospital's category as it was
\* stored, returns the hospitals with that category, and matches the query
\* against it.
CategoryKeptBySearch ==
  op' = "nearest" =>
    /\ Len(hospitals') = Len(hospitals)
    /\ \A i \in 1..Len(hospitals) : hospitals'[i].Category = hospitals[i].Category
    /\ \A k \in 1..Len(ret'.list) :
         \E i \in 1..Len(hospitals) :
           /\ ret'.list[k].Name = hospitals[i].Name
           /\ ret'.list[k].Category = hospitals[i].Category
    /\ \A i \in 1..Len(hospitals) :
         hospitals[i].Category[1] = trim(toLowerCase(arg'.type))
           => \E k \in 1..Len(ret'.list) : ret'.list[k].Name = hospitals[i].Name

\* C24: detectDiseaseType returns exactly one category of the taxonomy, the
\* first in table order one of whose keywords occurs in the lower-cased name
\* or description and general when none occurs; nearest does not detect
\* again but reads the category stored at ingestion.
C24_FirstCategoryStoredOnce ==
  [](CategoryAtIngestion) /\ [][CategoryKeptBySearch]_vars

\* a hospital named "Eye and Bone" described as a cardiac unit is stored as
\* heart, and a search for "heart" returns it although its name, all that a
\* second detection would see, has keywords of eye and bone only
C24_Witness ==
  /\ op = "nearest"
  /\ arg.type = <<"h","e","a","r","t">>
  /\ Len(ret.list) = 1
  /\ ret.list[1].Name = <<"E","y","e"," ","a","n","d"," ","B","o","n","e">>
  /\ ret.list[1].Category = << <<"h","e","a","r","t">> >>

(***************************************************************************)
(* Spec: the records side of the sessions of the page.  The check-in and   *)
(* profile handlers run from the moment safeInit has wired them; each      *)
(* stops at its 'await dbPut' and resumes when the store answers.          *)
(* loadPersistedData runs once per session, after geolocation has          *)
(* answered, and stops at each of its three reads.  The clock moves        *)
(* between any two steps or stands still.  id and date of a record are     *)
(* read from the clock in the same step (lines 1028-1029), so the date of  *)
(* a record is the millisecond its id names.  The sessions start on the    *)
(* path without a position (error, timeout or no geolocation API); with a  *)
(* position the callback also sets userLat and userLon and fetches the     *)
(* hospitals (line 961), which the records do not depend on and which is   *)
(* followed in SpecHosp.                                                   *)
(***************************************************************************)
\* what the check-in form submits: a number or null from the temperature
\* input, the values of the checked symptom boxes
CheckIns ==
  {[temperature |-> Num(3900), symptoms |-> <<Vocabulary[7]>>],
   [temperature |-> NoTemp, symptoms |-> <<>>]}

\* what the profile form submits
FormProfiles == {p \in Profiles : p.exists /\ Len(p.medications) = 1}

\* dbPut on a store with keyPath id
dbPutById(store, value) == {x \in store : x.id # value.id} \cup {value}

\* dbGetAll on a store with keyPath id: the values in key order
RECURSIVE dbGetAllById(_)
dbGetAllById(store) ==
  IF store = {} THEN <<>>
  ELSE LET first == CHOOSE x \in store : \A y \in store : x.id <= y.id
       IN <<first>> \o dbGetAllById(store \ {first})

\* list.sort((a, b) => new Date(b.date) - new Date(a.date)), a stable sort
sortByDateDescending(list) ==
  LET insert(sorted, x) ==
        LET k == Cardinality({j \in 1..Len(sorted) : sorted[j].id >= x.id})
        IN SubSeq(sorted, 1, k) \o <<x>> \o SubSeq(sorted, k + 1, Len(sorted))
      F[i \in 0..Len(list)] ==
        IF i = 0 THEN <<>> ELSE insert(F[i - 1], list[i])
  IN F[Len(list)]

\* the result with generatedAt: new Date().toISOString() read at time t
stamped(result, t) ==
  [recordId |-> result.recordId, summary |-> result.summary,
   reasons |-> result.reasons, suggestions |-> result.suggestions,
   generatedAt |-> t]

\* generateAISuggestion(state.healthRecords[0], state.healthRecords.slice(1))
suggest(records, profile, t) ==
  stamped(generateAISuggestion(Head(records), Tail(records), profile), t)

\* a call of generateAISuggestion on the latest record, the rest of the list
\* and the profile: it repeats the call before it when list and profile are
\* still those of that call, whose result is then in suggestion
callOf(last, suggestion) ==
  [fresh |-> TRUE, repeats |-> last.fresh,
   before |-> IF last.fresh THEN suggestion ELSE NoSuggestion]

\* a step without a call; same: it leaves the record list and the profile
\* as they were
stepOf(last, same) ==
  [fresh |-> last.fresh /\ same, repeats |-> FALSE, before |-> NoSuggestion]

\* renderDashboard: whether it generates the suggestion again
rendersAnew(records, suggestion) ==
  /\ records # <<>>
  /\ suggestion = NoSuggestion \/ suggestion.recordId # Head(records).id

\* state.activeAlert = (analysis.level !== "normal") ? analysis : null
alertOf(records) ==
  LET analysis == analyzeHealthData(Head(records), Tail(records))
  IN IF analysis.level # "normal" THEN analysis ELSE NoAlert

Init ==
  /\ userProfile = NoProfile
  /\ arg = NoArg
  /\ op = "none"
  /\ ret = NoRet
  /\ hospitals = <<>>
  /\ userLat = NoCoord
  /\ userLon = NoCoord
  /\ storeHospitals = {}
  /\ pc = "boot"
  /\ InitApp

\* the clock reaches the next millisecond
Tick ==
  /\ now < MaxClock
  /\ now' = now + 1
  /\ op' = "none"
  /\ genLast' = stepOf(genLast, TRUE)
  /\ UNCHANGED <<userProfile, hospVars, arg, ret, healthRecords, activeAlert,
                 aiSuggestion, storeRecords, storeProfile, submitQ, profileQ>>

\* onSubmit up to 'await dbPut(STORE_RECORDS, ...)' (lines 1024-1041)
SubmitStart ==
  \E c \in CheckIns :
    LET newRecord == Record(now, c.temperature, c.symptoms) IN
    /\ Len(healthRecords) < MaxRecords
    /\ Len(submitQ) + Len(profileQ) < MaxPending
    /\ healthRecords' = <<newRecord>> \o healthRecords
    /\ submitQ' = Append(submitQ, newRecord)
    /\ op' = "none"
    /\ genLast' = stepOf(genLast, FALSE)
    /\ UNCHANGED <<userProfile, hospVars, arg, ret, activeAlert, aiSuggestion,
                   storeRecords, storeProfile, now, profileQ>>

\* onSubmit from the answer of the store on (lines 1041-1061); with an empty
\* list analyzeHealthData(undefined, []) throws and the handler's catch
\* reports it
submitResume(stored) ==
  /\ submitQ' = Tail(submitQ)
  /\ storeRecords' = IF stored THEN dbPutById(storeRecords, Head(submitQ))
                     ELSE storeRecords
  /\ IF healthRecords = <<>>
     THEN /\ op' = "submitError"
          /\ genLast' = stepOf(genLast, TRUE)
          /\ UNCHANGED <<activeAlert, aiSuggestion>>
     ELSE /\ activeAlert' = alertOf(healthRecords)
          /\ aiSuggestion' = suggest(healthRecords, userProfile, now)
          /\ genLast' = callOf(genLast, aiSuggestion)
          /\ op' = "submitDone"
  /\ UNCHANGED <<userProfile, hospVars, arg, ret, healthRecords, storeProfile,
                 now, profileQ>>

\* the store has written the record
SubmitFinish ==
  /\ submitQ # <<>>
  /\ submitResume(TRUE)

\* the store rejects the write: the error is shown and the handler goes on
SubmitStoreError ==
  /\ submitQ # <<>>
  /\ submitResume(FALSE)

\* the profile handler up to 'await dbPut(STORE_PROFILE, profile)'
\* (lines 1084-1105)
ProfileStart ==
  \E profile \in FormProfiles :
    /\ Len(submitQ) + Len(profileQ) < MaxPending
    /\ userProfile' = profile
    /\ profileQ' = Append(profileQ, profile)
    /\ op' = "none"
    /\ genLast' = stepOf(genLast, profile = userProfile)
    /\ UNCHANGED <<hospVars, arg, ret, healthRecords, activeAlert, aiSuggestion,
                   storeRecords, storeProfile, now, submitQ>>

\* the profile handler from the answer of the store on (lines 1105-1113)
profileResume(stored) ==
  /\ profileQ' = Tail(profileQ)
  /\ storeProfile' = IF stored THEN Head(profileQ) ELSE storeProfile
  /\ IF healthRecords = <<>>
     THEN /\ op' = "profileSaved"
          /\ genLast' = stepOf(genLast, TRUE)
          /\ UNCHANGED aiSuggestion
     ELSE /\ aiSuggestion' = suggest(healthRecords, userProfile, now)
          /\ genLast' = callOf(genLast, aiSuggestion)
          /\ op' = "profileDone"
  /\ UNCHANGED <<userProfile, hospVars, arg, ret, healthRecords, activeAlert,
                 storeRecords, now, submitQ>>

\* the store has written the profile
ProfileFinish ==
  /\ profileQ # <<>>
  /\ profileResume(TRUE)

\* the store rejects the write: the error is shown and the handler goes on
ProfileStoreError ==
  /\ profileQ # <<>>
  /\ profileResume(FALSE)

\* dismissAlert(), behind the button of a shown alert
DismissAlert ==
  /\ activeAlert # NoAlert
  /\ activeAlert' = NoAlert
  /\ op' = "none"
  /\ genLast' = stepOf(genLast, TRUE)
  /\ UNCHANGED <<userProfile, hospVars, arg, ret, healthRecords, aiSuggestion,
                 storeRecords, storeProfile, now, submitQ, profileQ>>

\* what follows loadPersistedData in its caller: the success callback, which
\* has set the position (line 957), fetches the hospitals when the list is
\* empty (lines 961, 965) and renders; the other callers render
afterLoad(lat, lon, hs) ==
  IF lat.k # "null" /\ lon.k # "null" /\ Len(hs) = 0 THEN "fetch" ELSE "ready"

\* loadPersistedData, first read (lines 246-249)
LoadProfile ==
  /\ pc \in {"geoOk", "geoErr"}
  /\ userProfile' = IF storeProfile.exists THEN storeProfile ELSE userProfile
  /\ pc' = "loadRecords"
  /\ op' = "none"
  /\ genLast' = stepOf(genLast, userProfile' = userProfile)
  /\ UNCHANGED <<hospitals, userLat, userLon, storeHospitals, arg, ret,
                 healthRecords, activeAlert, aiSuggestion, storeRecords,
                 storeProfile, now, submitQ, profileQ>>

\* loadPersistedData, second read (lines 251-258)
LoadRecords ==
  /\ pc = "loadRecords"
  /\ healthRecords' = sortByDateDescending(dbGetAllById(storeRecords))
  /\ pc' = "loadHospitals"
  /\ op' = "none"
  /\ genLast' = stepOf(genLast, healthRecords' = healthRecords)
  /\ UNCHANGED <<userProfile, hospitals, userLat, userLon, storeHospitals, arg, ret,
                 activeAlert, aiSuggestion, storeRecords, storeProfile, now,
                 submitQ, profileQ>>

\* loadPersistedData, third read and the rest (lines 260-275), then the
\* renderAll of the caller
LoadFinish ==
  /\ pc = "loadHospitals"
  /\ hospitals' = loadedHospitals(storeHospitals, hospitals, userLat, userLon)
  /\ IF healthRecords = <<>>
     THEN /\ genLast' = stepOf(genLast, TRUE)
          /\ UNCHANGED aiSuggestion
     ELSE /\ aiSuggestion' = suggest(healthRecords, userProfile, now)
          /\ genLast' = callOf(genLast, aiSuggestion)
  /\ pc' = afterLoad(userLat, userLon, hospitals')
  /\ op' = "loadDone"
  /\ UNCHANGED <<userProfile, userLat, userLon, storeHospitals, arg, ret,
                 healthRecords, activeAlert, storeRecords, storeProfile, now,
                 submitQ, profileQ>>

\* one of the three reads rejects: the catch of line 276 logs it and the
\* caller renders; renderDashboard generates the suggestion when there is
\* none for the id of the latest record (lines 419-421)
LoadFail ==
  /\ pc \in {"geoOk", "geoErr", "loadRecords", "loadHospitals"}
  /\ IF rendersAnew(healthRecords, aiSuggestion)
     THEN /\ aiSuggestion' = suggest(healthRecords, userProfile, now)
          /\ genLast' = callOf(genLast, aiSuggestion)
     ELSE /\ genLast' = stepOf(genLast, TRUE)
          /\ UNCHANGED aiSuggestion
  /\ pc' = afterLoad(userLat, userLon, hospitals)
  /\ op' = "loadFailed"
  /\ UNCHANGED <<userProfile, hospitals, userLat, userLon, storeHospitals, arg, ret,
                 healthRecords, activeAlert, storeRecords, storeProfile, now,
                 submitQ, profileQ>>

Next ==
  \/ GeoError
  \/ LoadProfile
  \/ LoadRecords
  \/ LoadFinish
  \/ LoadFail
  \/ SubmitStart
  \/ SubmitFinish
  \/ SubmitStoreError
  \/ ProfileStart
  \/ ProfileFinish
  \/ ProfileStoreError
  \/ DismissAlert
  \/ Tick
  \/ Reload

Spec == Init /\ [][Next]_vars

(***************************************************************************)
(* Properties of the sessions                                              *)
(***************************************************************************)
\* the two results differ at most in generatedAt
SameButGeneratedAt(a, b) == stamped(a, 0) = stamped(b, 0)

Rendered == op \in {"submitDone", "profileDone", "loadDone", "loadFailed"}

\* C12: whenever a handler has finished and the dashboard has rendered with
\* a non-empty record list, aiSuggestion equals, except for generatedAt,
\* generateAISuggestion of the latest record, the rest of the list and the
\* current profile.
C12_SuggestionIsCurrent ==
  (Rendered /\ healthRecords # <<>>) =>
    SameButGeneratedAt(aiSuggestion, suggest(healthRecords, userProfile, now))

\* C16: no two records of healthRecords share an id, and the store entry
\* under the id of a record is that record.
C16_UniqueIdsOwnEntries ==
  /\ \A i \in 1..Len(healthRecords) : \A j \in 1..Len(healthRecords) :
       i # j => healthRecords[i].id # healthRecords[j].id
  /\ \A i \in 1..Len(healthRecords) : \A x \in storeRecords :
       x.id = healthRecords[i].id => x = healthRecords[i]

\* C17: within a session every record of healthRecords is still in
\* healthRecords, unchanged, after the next step, whichever handler takes it.
C17_RecordsAppendOnly ==
  [][pc' # "boot" =>
       \A i \in 1..Len(healthRecords) :
         \E j \in 1..Len(healthRecords') : healthRecords'[j] = healthRecords[i]]_vars

\* C20: right after a check-in submission or loadPersistedData has left a
\* non-empty record list, with no other submission in flight, activeAlert
\* is null when analyzeHealthData of the latest record gives level normal
\* and is its result otherwise.
C20_AlertReflectsLatest ==
  (op \in {"submitDone", "loadDone"} /\ healthRecords # <<>> /\ submitQ = <<>>) =>
    activeAlert = alertOf(healthRecords)

\* C26: the alert and the suggestion a check-in submission stores when its
\* write has been answered are those of the record this submission created,
\* whatever ran while it waited.
C26_SubmissionUsesOwnRecord ==
  [][(submitQ # <<>> /\ submitQ' = Tail(submitQ)) =>
       LET mine == Head(submitQ) IN
       /\ op' = "submitDone"
       /\ aiSuggestion'.recordId = mine.id
       /\ activeAlert' = alertOf(<<mine>>)]_vars

(***************************************************************************)
(* SpecStart: the start-up of safeInit on each of its three paths, with    *)
(* the fetch that follows a position and the reloads.  getCurrentPosition  *)
(* is called with a timeout of 8000 ms (line 975), after which the error   *)
(* callback runs, so one of the callbacks is taken; an IndexedDB request   *)
(* fires success or error, so every read of loadPersistedData is answered. *)
(***************************************************************************)
\* "geolocation" is not in navigator: safeInit awaits loadPersistedData
\* itself (lines 976-979)
GeoAbsent ==
  /\ pc = "boot"
  /\ pc' = "geoErr"
  /\ op' = "noGeolocation"
  /\ arg' = NoArg
  /\ ret' = NoRet
  /\ UNCHANGED <<appVars, userProfile, hospitals, userLat, userLon, storeHospitals>>

Locate == GeoSuccess \/ GeoError \/ GeoAbsent

Load == LoadFail \/ LoadProfile \/ LoadRecords \/ LoadFinish

NextStart ==
  \/ GeoSuccess
  \/ GeoError
  \/ GeoAbsent
  \/ LoadProfile
  \/ LoadRecords
  \/ LoadFinish
  \/ LoadFail
  \/ FetchHospitals
  \/ FetchHospitalsNetworkError
  \/ FetchHospitalsStoreError
  \/ Reload

\* every step of Locate and of Load moves pc
SpecStart ==
  /\ Init
  /\ [][NextStart]_vars
  /\ WF_pc(Locate)
  /\ WF_pc(Load)

\* loadPersistedData has ended and its caller has called renderAll
RenderedAfterLoad == op \in {"loadDone", "loadFailed"}

\* a step that may change the position: the success callback, or a reload
SetsPosition ==
  \/ pc = "boot" /\ pc' = "geoOk"
  \/ pc' = "boot"

\* C25: start-up does not hang on geolocation: whether the position is
\* obtained, the request fails or times out, or there is no geolocation
\* API, loadPersistedData runs and renderAll is called after it; without a
\* position the application goes on with userLat and userLon null.
C25_StartUpCompletes ==
  /\ (pc = "boot") ~> RenderedAfterLoad
  /\ [](pc = "geoErr" => (userLat = NoCoord /\ userLon = NoCoord))
  /\ [][SetsPosition]_<<userLat, userLon>>

\* the second session has started up without a position, with the hospitals
\* an earlier session stored
C25_Witness ==
  /\ RenderedAfterLoad
  /\ pc = "ready"
  /\ now = 2
  /\ userLat = NoCoord
  /\ userLon = NoCoord
  /\ Len(hospitals) >= 2

====
